---- MODULE Spec2Model ----
(***************************************************************************)
(* Model of the client-side session/auth-state manager of the volunteer    *)
(* hub web application: fetchWithRetry (Resilient Fetch), the AuthProvider  *)
(* state (SessionState), localStorage key auth_token (durable storage) and  *)
(* the controller operations of src/contexts/AuthContext.tsx.              *)
(***************************************************************************)
EXTENDS Naturals, Integers, Sequences, FiniteSets, TLC

VARIABLES storage, authState, boot, tasks, started, fr, fetchLog, route,
          page, otp

vars == <<storage, authState, boot, tasks, started, fr, fetchLog, route,
          page, otp>>

-----------------------------------------------------------------------------
(* Bounds of the model *)

\* total number of controller operations invoked in one run
MaxOps == 2
\* largest retry budget handed to a stand-alone fetchWithRetry call
MaxBudget == 4
\* number of clicks on the resend button of the VerifyOTP page in one run
MaxClicks == 3

\* slots for controller operations that are in flight at the same time
Slots == {"a", "b"}

-----------------------------------------------------------------------------
(* Values *)

\* JavaScript null for a token / an error
Null == "null"
\* JavaScript null for an object (user, response body)
NullObj == [null |-> TRUE]
\* an object without own properties, the result of spreading null
EmptyObj == [k \in {} |-> TRUE]

Tokens == {"t1", "t2"}
\* transport errors thrown by fetch(): to the controller, and to a stand-alone call
Errs == {"e1"}
FetchErrs == {"e1", "e2"}

\* `retries = 3`, the default retry budget
DefaultRetries == 3

GatewayTimeout == "Gateway timeout"

\* identities served by GET /api/user/me
u1 == [first |-> "a", role |-> "ngo"]
u2 == [first |-> "b", role |-> "user"]
\* bodies served by POST /api/user/me
p1 == [first |-> "c"]
p2 == [phone |-> "p"]
\* address data passed to updateAddress
addr1 == [city |-> "x"]

ErrBodyMsg == [message |-> "m"]
ErrBodyNoMsg == [code |-> "c"]
OkBody == [done |-> "yes"]

\* outcome of one fetch(): a thrown transport error or a response
Throw(e) == [kind |-> "throw", err |-> e, status |-> 0, body |-> NullObj]
Resp(s, b) == [kind |-> "resp", err |-> Null, status |-> s, body |-> b]
NoOutcome == [kind |-> "none", err |-> Null, status |-> 0, body |-> NullObj]

\* response.ok
Ok(r) == r.kind = "resp" /\ r.status >= 200 /\ r.status <= 299

Failures == {Throw(e) : e \in Errs} \cup {Resp(504, ErrBodyNoMsg)}
FetchFailures == {Throw(e) : e \in FetchErrs} \cup {Resp(504, ErrBodyNoMsg)}
BusinessErrors == {Resp(401, ErrBodyMsg), Resp(500, ErrBodyNoMsg)}

\* what the remote API may answer on each endpoint
Outcomes(ep) ==
  Failures \cup BusinessErrors \cup
  CASE ep = "me" -> {Resp(200, u1), Resp(200, [user |-> u2])}
    [] ep = "login" -> {Resp(200, [token |-> t]) : t \in Tokens}
    [] ep = "verify" -> {Resp(200, [token |-> t]) : t \in Tokens} \cup {Resp(200, OkBody)}
    [] ep = "profile" -> {Resp(200, p1), Resp(200, [user |-> p2])}
    [] OTHER -> {Resp(200, OkBody)}

-----------------------------------------------------------------------------
(* fetchWithRetry *)

IdleFetch ==
  [phase |-> "idle", i |-> 0, retries |-> 0, calls |-> 0, delays |-> 0,
   response |-> NoOutcome, error |-> Null, settled |-> NoOutcome]

FetchStartAtLeastOnce(retries) ==
  [IdleFetch EXCEPT !.phase = "fetch", !.retries = retries, !.calls = 1]

\* the call of fetchWithRetry up to its first await: the loop is entered and
\* fetch() issued when 0 < retries, else the function returns undefined
FetchStart(retries) ==
  IF 0 < retries
  THEN [IdleFetch EXCEPT !.phase = "fetch", !.retries = retries, !.calls = 1]
  ELSE [IdleFetch EXCEPT !.phase = "returned", !.retries = retries]

\* the error caught by the catch block for a failed attempt
CaughtError(o) == IF o.kind = "throw" THEN o.err ELSE GatewayTimeout

FetchSettleNo504(f, o) ==
  IF o.kind = "resp"
  THEN [f EXCEPT !.phase = "returned", !.response = o, !.error = Null, !.settled = o]
  ELSE IF f.i = f.retries - 1
       THEN [f EXCEPT !.phase = "threw", !.error = CaughtError(o), !.settled = o]
       ELSE [f EXCEPT !.phase = "delay", !.delays = @ + 1, !.error = CaughtError(o), !.settled = o]

FetchSettleOffByOne(f, o) ==
  IF o.kind = "resp" /\ o.status # 504
  THEN [f EXCEPT !.phase = "returned", !.response = o, !.error = Null, !.settled = o]
  ELSE IF f.i = f.retries
       THEN [f EXCEPT !.phase = "threw", !.error = CaughtError(o), !.settled = o]
       ELSE [f EXCEPT !.phase = "delay", !.delays = @ + 1, !.error = CaughtError(o), !.settled = o]

FetchSettleRetryAll(f, o) ==
  IF Ok(o)
  THEN [f EXCEPT !.phase = "returned", !.response = o, !.error = Null, !.settled = o]
  ELSE IF f.i = f.retries - 1
       THEN [f EXCEPT !.phase = "threw", !.error = CaughtError(o), !.settled = o]
       ELSE [f EXCEPT !.phase = "delay", !.delays = @ + 1, !.error = CaughtError(o), !.settled = o]

\* the awaited fetch() settles with outcome o: a response other than 504 is
\* returned; a thrown error or a 504 is rethrown on the last iteration and
\* otherwise followed by the one second delay
FetchSettle(f, o) ==
  IF o.kind = "resp" /\ o.status # 504
  THEN [f EXCEPT !.phase = "returned", !.response = o, !.error = Null, !.settled = o]
  ELSE IF f.i = f.retries - 1
       THEN [f EXCEPT !.phase = "threw", !.error = CaughtError(o), !.settled = o]
       ELSE [f EXCEPT !.phase = "delay", !.delays = @ + 1, !.error = CaughtError(o), !.settled = o]

\* the delay elapses: next loop iteration, fetch() is issued again
FetchDelayDone(f) ==
  [f EXCEPT !.phase = "fetch", !.i = @ + 1, !.calls = @ + 1, !.error = Null,
            !.settled = NoOutcome]

-----------------------------------------------------------------------------
(* SessionState and the helpers of the controller *)

\* useState(...): the AuthState the provider is constructed with
InitialAuthState(tok) ==
  [user |-> NullObj, token |-> tok, isAuthenticated |-> FALSE, isLoading |-> TRUE]

\* the AuthState written by logout and by loadUser on a non-2xx response
ClearedAuthState ==
  [user |-> NullObj, token |-> Null, isAuthenticated |-> FALSE, isLoading |-> FALSE]

AuthenticatedStateStillLoading(u, tok) ==
  [user |-> u, token |-> tok, isAuthenticated |-> TRUE, isLoading |-> TRUE]

AuthenticatedStateDropsToken(u, tok) ==
  [user |-> u, token |-> Null, isAuthenticated |-> TRUE, isLoading |-> FALSE]

\* the AuthState written after a successful identity fetch
AuthenticatedState(u, tok) ==
  [user |-> u, token |-> tok, isAuthenticated |-> TRUE, isLoading |-> FALSE]

UnwrapNever(body) == body

\* responseData.user || responseData
Unwrap(body) == IF "user" \in DOMAIN body THEN body.user ELSE body

\* error.message || fallback
ErrMessage(body, fallback) ==
  IF "message" \in DOMAIN body THEN body.message ELSE fallback

\* { ...x }: spreading null yields no property
Spread(x) == IF x = NullObj THEN EmptyObj ELSE x

\* { ...a, ...b }
Merge(a, b) ==
  [k \in (DOMAIN a) \cup (DOMAIN b) |-> IF k \in DOMAIN b THEN b[k] ELSE a[k]]

LoadUserNoTokenKeepsLoading(prev) == prev

\* loadUser without a stored token: setAuthState(prev => ({...prev, isLoading: false}))
LoadUserNoToken(prev) == [prev EXCEPT !.isLoading = FALSE]

LoadUserCatchKeepsLoading(prev) == prev

\* loadUser, catch branch: setAuthState(prev => ({...prev, isLoading: false}))
LoadUserCatch(prev) == [prev EXCEPT !.isLoading = FALSE]

\* updateUserProfile on success:
\* setAuthState(prev => ({...prev, user: {...prev.user!, ...updatedUser}}))
ProfileUpdated(prev, updatedUser) ==
  [prev EXCEPT !.user = Merge(Spread(prev.user), updatedUser)]

AddressUpdatedReplaces(prev, capUser, addressData) ==
  IF capUser # NullObj
  THEN [prev EXCEPT !.user = [address |-> addressData]]
  ELSE prev

\* updateAddress on success, when the captured authState.user is set:
\* setAuthState(prev => ({...prev, user: {...prev.user!, address: addressData}}))
AddressUpdated(prev, capUser, addressData) ==
  IF capUser # NullObj
  THEN [prev EXCEPT !.user = Merge(Spread(prev.user), [address |-> addressData])]
  ELSE prev

TokenMissingNever(cap) == FALSE

\* `!authState.token` of updateUserProfile and updateAddress, evaluated on the
\* authState the invoked function closes over
TokenMissing(cap) == cap.token = Null

-----------------------------------------------------------------------------
(* ProtectedRoute, the route guard *)

\* an absent prop, an absent property
Undefined == "undefined"

\* user?.role
RoleOf(user) ==
  IF user = NullObj \/ "role" \notin DOMAIN user THEN Undefined ELSE user.role

ProtectedRouteAuthFirst(st, requiredRole) ==
  IF ~st.isAuthenticated THEN "/login"
  ELSE IF st.isLoading THEN "loading"
  ELSE IF requiredRole # Undefined /\ RoleOf(st.user) # requiredRole THEN "/dashboard"
  ELSE "children"

ProtectedRouteNoRoleCheck(st, requiredRole) ==
  IF st.isLoading THEN "loading"
  ELSE IF ~st.isAuthenticated THEN "/login"
  ELSE "children"

\* what ProtectedRoute renders for the session state st and the prop requiredRole
ProtectedRoute(st, requiredRole) ==
  IF st.isLoading THEN "loading"
  ELSE IF ~st.isAuthenticated THEN "/login"
  ELSE IF requiredRole # Undefined /\ RoleOf(st.user) # requiredRole THEN "/dashboard"
  ELSE "children"

\* a guarded route: its requiredRole prop and what it rendered last
IdleRoute == [requiredRole |-> Undefined, outcome |-> "none"]

-----------------------------------------------------------------------------
(* Tasks: controller operations in flight *)

\* a slot: the operation, where it stands, the user of the authState the
\* invoked function closes over (read by updateAddress after its await), the
\* pending fetchWithRetry, the token of the login/verification response, the
\* argument, and how the returned promise settled
IdleTask ==
  [op |-> "none", pc |-> "idle", capUser |-> NullObj, f |-> IdleFetch,
   tok |-> Null, arg |-> NullObj, outcome |-> "none", err |-> Null]

\* loadUser: where it stands, the token it read, the pending fetchWithRetry and
\* the branch it left through
IdleBoot == [pc |-> "start", token |-> Null, f |-> IdleFetch, exit |-> "none"]

\* a task that has called fetchWithRetry and awaits it
Awaiting(op, pc, capUser, tok, arg) ==
  [op |-> op, pc |-> pc, capUser |-> capUser, f |-> FetchStart(DefaultRetries),
   tok |-> tok, arg |-> arg, outcome |-> "none", err |-> Null]

\* the promise of the operation settles
Finished(t, outcome, err) ==
  [IdleTask EXCEPT !.op = t.op, !.pc = "done", !.outcome = outcome, !.err = err]

\* catch (error) { toast.error(...); throw error }
Rejected(t, err) == Finished(t, "rejected", err)
Resolved(t) == Finished(t, "resolved", Null)

\* the endpoint a task awaits
Endpoint(t) ==
  CASE t.pc = "await2" -> "me"
    [] t.op = "login" -> "login"
    [] t.op = "verifyOtp" -> "verify"
    [] t.op = "updateUserProfile" -> "profile"
    [] OTHER -> "other"

Free(s) == tasks[s].pc \in {"idle", "done"}

\* a controller operation called from a closure that holds the authState cap,
\* run up to its first await: updateUserProfile and updateAddress throw
\* without a token, updateAddress keeps cap.user for its check after the
\* request, every operation issues its request through fetchWithRetry
Invoked(op, cap) ==
  CASE op = "updateUserProfile" ->
         IF TokenMissing(cap)
         THEN Rejected([IdleTask EXCEPT !.op = "updateUserProfile"], "Not authenticated")
         ELSE Awaiting("updateUserProfile", "await1", NullObj, Null, NullObj)
    [] op = "updateAddress" ->
         IF TokenMissing(cap)
         THEN Rejected([IdleTask EXCEPT !.op = "updateAddress"], "Not authenticated")
         ELSE Awaiting("updateAddress", "await1", cap.user, Null, addr1)
    [] OTHER -> Awaiting(op, "await1", NullObj, Null, NullObj)

\* a page with a form: which page, where its onSubmit stands, its own
\* isLoading flag, the last navigate() it made and, for NGOProfile, the
\* authState its render closed over
IdlePage ==
  [name |-> "none", pc |-> "idle", loading |-> FALSE, nav |-> "none",
   cap |-> ClearedAuthState]

\* useState(60) and setCountdown(60) of the VerifyOTP page
CooldownSeconds == 60

\* the resend part of the VerifyOTP page: location.state.email is present,
\* resendDisabled, countdown; clicks counts the calls of handleResendOTP,
\* sinceFirst the ticks since the resend that disabled the button, sinceLast
\* the ticks since the latest successful resend
IdleOtp ==
  [email |-> TRUE, resendDisabled |-> FALSE, countdown |-> CooldownSeconds,
   clicks |-> 0, sinceFirst |-> 0, sinceLast |-> 0]

\* an operation can be invoked once the provider is mounted; slot b is used
\* only while slot a is busy
MayStart(s) ==
  /\ boot.pc # "start"
  /\ started < MaxOps
  /\ Free(s)
  /\ (s = "b" => ~Free("a"))

Init ==
  /\ storage \in {Null, "t1"}
  /\ authState = InitialAuthState(storage)
  /\ boot = IdleBoot
  /\ tasks = [s \in Slots |-> IdleTask]
  /\ started = 0
  /\ fr = IdleFetch
  /\ fetchLog = <<>>
  /\ route = IdleRoute
  /\ page = IdlePage
  /\ otp = IdleOtp

-----------------------------------------------------------------------------
(* Bootstrap: the mount effect, loadUser *)

BootDone(exit) == [IdleBoot EXCEPT !.pc = "done", !.exit = exit]

BootStart ==
  /\ boot.pc = "start"
  /\ IF storage = Null
     THEN /\ authState' = LoadUserNoToken(authState)
          /\ boot' = BootDone("noToken")
     ELSE /\ authState' = authState
          /\ boot' = [IdleBoot EXCEPT !.pc = "await", !.token = storage,
                                      !.f = FetchStart(DefaultRetries)]
  /\ UNCHANGED <<storage, tasks, started, fr, fetchLog, route, page, otp>>

\* an attempt of the identity fetch fails and the retry delay starts
BootRetry ==
  /\ boot.pc = "await" /\ boot.f.phase = "fetch"
  /\ \E o \in Outcomes("me") :
       LET f == FetchSettle(boot.f, o) IN
       /\ f.phase = "delay"
       /\ boot' = [boot EXCEPT !.f = f]
  /\ UNCHANGED <<storage, authState, tasks, started, fr, fetchLog, route, page, otp>>

BootDelayDone ==
  /\ boot.pc = "await" /\ boot.f.phase = "delay"
  /\ boot' = [boot EXCEPT !.f = FetchDelayDone(boot.f)]
  /\ UNCHANGED <<storage, authState, tasks, started, fr, fetchLog, route, page, otp>>

BootResumeMerges ==
  /\ boot.pc = "await" /\ boot.f.phase = "fetch"
  /\ \E o \in Outcomes("me") :
       LET f == FetchSettle(boot.f, o) IN
       /\ f.phase \in {"returned", "threw"}
       /\ IF f.phase = "returned"
          THEN IF Ok(f.response)
               THEN /\ authState' = AuthenticatedState(
                         Merge(Spread(authState.user), Unwrap(f.response.body)), boot.token)
                    /\ storage' = storage
                    /\ boot' = BootDone("ok")
               ELSE /\ storage' = Null
                    /\ authState' = ClearedAuthState
                    /\ boot' = BootDone("notOk")
          ELSE /\ authState' = LoadUserCatch(authState)
               /\ storage' = storage
               /\ boot' = BootDone("caught")
  /\ UNCHANGED <<tasks, started, fr, fetchLog, route, page, otp>>

\* the identity fetch settles for good and loadUser runs to its end
BootResume ==
  /\ boot.pc = "await" /\ boot.f.phase = "fetch"
  /\ \E o \in Outcomes("me") :
       LET f == FetchSettle(boot.f, o) IN
       /\ f.phase \in {"returned", "threw"}
       /\ IF f.phase = "returned"
          THEN IF Ok(f.response)
               THEN /\ authState' = AuthenticatedState(Unwrap(f.response.body), boot.token)
                    /\ storage' = storage
                    /\ boot' = BootDone("ok")
               ELSE /\ storage' = Null
                    /\ authState' = ClearedAuthState
                    /\ boot' = BootDone("notOk")
          ELSE /\ authState' = LoadUserCatch(authState)
               /\ storage' = storage
               /\ boot' = BootDone("caught")
  /\ UNCHANGED <<tasks, started, fr, fetchLog, route, page, otp>>

-----------------------------------------------------------------------------
(* The retry loop of the tasks *)

\* an attempt of the awaited request fails and the retry delay starts
TaskRetry(s) ==
  /\ tasks[s].pc \in {"await1", "await2"} /\ tasks[s].f.phase = "fetch"
  /\ \E o \in Outcomes(Endpoint(tasks[s])) :
       LET f == FetchSettle(tasks[s].f, o) IN
       /\ f.phase = "delay"
       /\ tasks' = [tasks EXCEPT ![s].f = f]
  /\ UNCHANGED <<storage, authState, boot, started, fr, fetchLog, route, page, otp>>

TaskDelayDone(s) ==
  /\ tasks[s].pc \in {"await1", "await2"} /\ tasks[s].f.phase = "delay"
  /\ tasks' = [tasks EXCEPT ![s].f = FetchDelayDone(tasks[s].f)]
  /\ UNCHANGED <<storage, authState, boot, started, fr, fetchLog, route, page, otp>>

-----------------------------------------------------------------------------
(* register *)

RegisterStart(s) ==
  /\ MayStart(s)
  /\ tasks' = [tasks EXCEPT ![s] = Invoked("register", authState)]
  /\ started' = started + 1
  /\ UNCHANGED <<storage, authState, boot, fr, fetchLog, route, page, otp>>

RegisterResumeAuthenticates(s) ==
  LET t == tasks[s] IN
  /\ t.op = "register" /\ t.pc = "await1" /\ t.f.phase = "fetch"
  /\ \E o \in Outcomes(Endpoint(t)) :
       LET f == FetchSettle(t.f, o) IN
       /\ f.phase \in {"returned", "threw"}
       /\ tasks' = [tasks EXCEPT ![s] =
            IF f.phase = "threw" THEN Rejected(t, f.error)
            ELSE IF ~Ok(f.response)
                 THEN Rejected(t, ErrMessage(f.response.body, "Registration failed"))
                 ELSE Resolved(t)]
       /\ authState' = IF f.phase = "returned" /\ Ok(f.response)
                       THEN [authState EXCEPT !.isAuthenticated = TRUE]
                       ELSE authState
  /\ UNCHANGED <<storage, boot, started, fr, fetchLog, route, page, otp>>

\* the request settles for good and register runs to its end
RegisterResume(s) ==
  LET t == tasks[s] IN
  /\ t.op = "register" /\ t.pc = "await1" /\ t.f.phase = "fetch"
  /\ \E o \in Outcomes(Endpoint(t)) :
       LET f == FetchSettle(t.f, o) IN
       /\ f.phase \in {"returned", "threw"}
       /\ tasks' = [tasks EXCEPT ![s] =
            IF f.phase = "threw" THEN Rejected(t, f.error)
            ELSE IF ~Ok(f.response)
                 THEN Rejected(t, ErrMessage(f.response.body, "Registration failed"))
                 ELSE Resolved(t)]
  /\ UNCHANGED <<storage, authState, boot, started, fr, fetchLog, route, page, otp>>

-----------------------------------------------------------------------------
(* login *)

LoginStart(s) ==
  /\ MayStart(s)
  /\ tasks' = [tasks EXCEPT ![s] = Invoked("login", authState)]
  /\ started' = started + 1
  /\ UNCHANGED <<storage, authState, boot, fr, fetchLog, route, page, otp>>

\* the login request settles for good: on a 2xx response the token is stored
\* and the identity fetch is issued
LoginResume1(s) ==
  LET t == tasks[s] IN
  /\ t.op = "login" /\ t.pc = "await1" /\ t.f.phase = "fetch"
  /\ \E o \in Outcomes(Endpoint(t)) :
       LET f == FetchSettle(t.f, o) IN
       /\ f.phase \in {"returned", "threw"}
       /\ IF f.phase = "threw"
          THEN /\ tasks' = [tasks EXCEPT ![s] = Rejected(t, f.error)]
               /\ storage' = storage
          ELSE IF ~Ok(f.response)
               THEN /\ tasks' = [tasks EXCEPT ![s] =
                         Rejected(t, ErrMessage(f.response.body, "Login failed"))]
                    /\ storage' = storage
               ELSE /\ storage' = f.response.body.token
                   /\ tasks' = [tasks EXCEPT ![s] =
                        Awaiting("login", "await2", NullObj, f.response.body.token, NullObj)]
  /\ UNCHANGED <<authState, boot, started, fr, fetchLog, route, page, otp>>

\* the identity fetch of login settles for good
LoginResume2(s) ==
  LET t == tasks[s] IN
  /\ t.op = "login" /\ t.pc = "await2" /\ t.f.phase = "fetch"
  /\ \E o \in Outcomes(Endpoint(t)) :
       LET f == FetchSettle(t.f, o) IN
       /\ f.phase \in {"returned", "threw"}
       /\ IF f.phase = "threw"
          THEN /\ tasks' = [tasks EXCEPT ![s] = Rejected(t, f.error)]
               /\ authState' = authState
          ELSE IF ~Ok(f.response)
               THEN /\ tasks' = [tasks EXCEPT ![s] = Rejected(t, "Failed to fetch user data")]
                    /\ authState' = authState
               ELSE /\ authState' = AuthenticatedState(Unwrap(f.response.body), t.tok)
                    /\ tasks' = [tasks EXCEPT ![s] = Resolved(t)]
  /\ UNCHANGED <<storage, boot, started, fr, fetchLog, route, page, otp>>

-----------------------------------------------------------------------------
(* logout *)

LogoutKeepsStorage ==
  /\ boot.pc # "start"
  /\ storage' = storage
  /\ authState' = ClearedAuthState
  /\ UNCHANGED <<boot, tasks, started, fr, fetchLog, route, page, otp>>

\* localStorage.removeItem("auth_token"); setAuthState({...})
Logout ==
  /\ boot.pc # "start"
  /\ storage' = Null
  /\ authState' = ClearedAuthState
  /\ UNCHANGED <<boot, tasks, started, fr, fetchLog, route, page, otp>>

-----------------------------------------------------------------------------
(* updateUserProfile *)

UpdateProfileStart(s) ==
  /\ MayStart(s)
  /\ tasks' = [tasks EXCEPT ![s] = Invoked("updateUserProfile", authState)]
  /\ started' = started + 1
  /\ UNCHANGED <<storage, authState, boot, fr, fetchLog, route, page, otp>>

UpdateProfileResumeClearsOnError(s) ==
  LET t == tasks[s] IN
  /\ t.op = "updateUserProfile" /\ t.pc = "await1" /\ t.f.phase = "fetch"
  /\ \E o \in Outcomes(Endpoint(t)) :
       LET f == FetchSettle(t.f, o) IN
       /\ f.phase \in {"returned", "threw"}
       /\ IF f.phase = "threw"
          THEN /\ tasks' = [tasks EXCEPT ![s] = Rejected(t, f.error)]
               /\ authState' = authState
          ELSE IF ~Ok(f.response)
               THEN /\ tasks' = [tasks EXCEPT ![s] =
                         Rejected(t, ErrMessage(f.response.body, "Failed to update profile"))]
                    /\ authState' = ClearedAuthState
               ELSE /\ authState' = ProfileUpdated(authState, f.response.body)
                    /\ tasks' = [tasks EXCEPT ![s] = Resolved(t)]
  /\ UNCHANGED <<storage, boot, started, fr, fetchLog, route, page, otp>>

\* the request settles for good and updateUserProfile runs to its end
UpdateProfileResume(s) ==
  LET t == tasks[s] IN
  /\ t.op = "updateUserProfile" /\ t.pc = "await1" /\ t.f.phase = "fetch"
  /\ \E o \in Outcomes(Endpoint(t)) :
       LET f == FetchSettle(t.f, o) IN
       /\ f.phase \in {"returned", "threw"}
       /\ IF f.phase = "threw"
          THEN /\ tasks' = [tasks EXCEPT ![s] = Rejected(t, f.error)]
               /\ authState' = authState
          ELSE IF ~Ok(f.response)
               THEN /\ tasks' = [tasks EXCEPT ![s] =
                         Rejected(t, ErrMessage(f.response.body, "Failed to update profile"))]
                    /\ authState' = authState
               ELSE /\ authState' = ProfileUpdated(authState, f.response.body)
                    /\ tasks' = [tasks EXCEPT ![s] = Resolved(t)]
  /\ UNCHANGED <<storage, boot, started, fr, fetchLog, route, page, otp>>

-----------------------------------------------------------------------------
(* updateAddress *)

UpdateAddressStart(s) ==
  /\ MayStart(s)
  /\ tasks' = [tasks EXCEPT ![s] = Invoked("updateAddress", authState)]
  /\ started' = started + 1
  /\ UNCHANGED <<storage, authState, boot, fr, fetchLog, route, page, otp>>

\* the request settles for good and updateAddress runs to its end
UpdateAddressResume(s) ==
  LET t == tasks[s] IN
  /\ t.op = "updateAddress" /\ t.pc = "await1" /\ t.f.phase = "fetch"
  /\ \E o \in Outcomes(Endpoint(t)) :
       LET f == FetchSettle(t.f, o) IN
       /\ f.phase \in {"returned", "threw"}
       /\ IF f.phase = "threw"
          THEN /\ tasks' = [tasks EXCEPT ![s] = Rejected(t, f.error)]
               /\ authState' = authState
          ELSE IF ~Ok(f.response)
               THEN /\ tasks' = [tasks EXCEPT ![s] =
                         Rejected(t, ErrMessage(f.response.body, "Failed to update address"))]
                    /\ authState' = authState
               ELSE /\ authState' = AddressUpdated(authState, t.capUser, t.arg)
                    /\ tasks' = [tasks EXCEPT ![s] = Resolved(t)]
  /\ UNCHANGED <<storage, boot, started, fr, fetchLog, route, page, otp>>

-----------------------------------------------------------------------------
(* verifyOtp *)

VerifyOtpStart(s) ==
  /\ MayStart(s)
  /\ tasks' = [tasks EXCEPT ![s] = Invoked("verifyOtp", authState)]
  /\ started' = started + 1
  /\ UNCHANGED <<storage, authState, boot, fr, fetchLog, route, page, otp>>

\* the verification request settles for good: with a token in the 2xx body
\* the token is stored and the identity fetch issued, without one verifyOtp
\* resolves
VerifyOtpResume1(s) ==
  LET t == tasks[s] IN
  /\ t.op = "verifyOtp" /\ t.pc = "await1" /\ t.f.phase = "fetch"
  /\ \E o \in Outcomes(Endpoint(t)) :
       LET f == FetchSettle(t.f, o) IN
       /\ f.phase \in {"returned", "threw"}
       /\ IF f.phase = "threw"
          THEN /\ tasks' = [tasks EXCEPT ![s] = Rejected(t, f.error)]
               /\ storage' = storage
          ELSE IF ~Ok(f.response)
               THEN /\ tasks' = [tasks EXCEPT ![s] =
                         Rejected(t, ErrMessage(f.response.body, "Failed to verify OTP"))]
                    /\ storage' = storage
               ELSE IF "token" \in DOMAIN f.response.body
                   THEN /\ storage' = f.response.body.token
                        /\ tasks' = [tasks EXCEPT ![s] =
                             Awaiting("verifyOtp", "await2", NullObj, f.response.body.token, NullObj)]
                   ELSE /\ storage' = storage
                        /\ tasks' = [tasks EXCEPT ![s] = Resolved(t)]
  /\ UNCHANGED <<authState, boot, started, fr, fetchLog, route, page, otp>>

\* the identity fetch of verifyOtp settles for good
VerifyOtpResume2(s) ==
  LET t == tasks[s] IN
  /\ t.op = "verifyOtp" /\ t.pc = "await2" /\ t.f.phase = "fetch"
  /\ \E o \in Outcomes(Endpoint(t)) :
       LET f == FetchSettle(t.f, o) IN
       /\ f.phase \in {"returned", "threw"}
       /\ IF f.phase = "threw"
          THEN /\ tasks' = [tasks EXCEPT ![s] = Rejected(t, f.error)]
               /\ authState' = authState
          ELSE IF ~Ok(f.response)
               THEN /\ tasks' = [tasks EXCEPT ![s] = Rejected(t, "Failed to fetch user data")]
                    /\ authState' = authState
               ELSE /\ authState' = AuthenticatedState(Unwrap(f.response.body), t.tok)
                    /\ tasks' = [tasks EXCEPT ![s] = Resolved(t)]
  /\ UNCHANGED <<storage, boot, started, fr, fetchLog, route, page, otp>>

-----------------------------------------------------------------------------
(* resendOtp *)

ResendOtpStart(s) ==
  /\ MayStart(s)
  /\ tasks' = [tasks EXCEPT ![s] = Invoked("resendOtp", authState)]
  /\ started' = started + 1
  /\ UNCHANGED <<storage, authState, boot, fr, fetchLog, route, page, otp>>

\* the request settles for good and resendOtp runs to its end
ResendOtpResume(s) ==
  LET t == tasks[s] IN
  /\ t.op = "resendOtp" /\ t.pc = "await1" /\ t.f.phase = "fetch"
  /\ \E o \in Outcomes(Endpoint(t)) :
       LET f == FetchSettle(t.f, o) IN
       /\ f.phase \in {"returned", "threw"}
       /\ tasks' = [tasks EXCEPT ![s] =
            IF f.phase = "threw" THEN Rejected(t, f.error)
            ELSE IF ~Ok(f.response)
                 THEN Rejected(t, ErrMessage(f.response.body, "Failed to resend OTP"))
                 ELSE Resolved(t)]
  /\ UNCHANGED <<storage, authState, boot, started, fr, fetchLog, route, page, otp>>

-----------------------------------------------------------------------------
(* The session manager *)

Next ==
  \/ BootStart
  \/ BootRetry
  \/ BootDelayDone
  \/ BootResume
  \/ Logout
  \/ \E s \in Slots : TaskRetry(s)
  \/ \E s \in Slots : TaskDelayDone(s)
  \/ \E s \in Slots : RegisterStart(s)
  \/ \E s \in Slots : RegisterResume(s)
  \/ \E s \in Slots : LoginStart(s)
  \/ \E s \in Slots : LoginResume1(s)
  \/ \E s \in Slots : LoginResume2(s)
  \/ \E s \in Slots : UpdateProfileStart(s)
  \/ \E s \in Slots : UpdateProfileResume(s)
  \/ \E s \in Slots : UpdateAddressStart(s)
  \/ \E s \in Slots : UpdateAddressResume(s)
  \/ \E s \in Slots : VerifyOtpStart(s)
  \/ \E s \in Slots : VerifyOtpResume1(s)
  \/ \E s \in Slots : VerifyOtpResume2(s)
  \/ \E s \in Slots : ResendOtpStart(s)
  \/ \E s \in Slots : ResendOtpResume(s)

Spec == Init /\ [][Next]_vars

\* the session manager with one operation in flight at a time, next to
\* bootstrap and logout
NextSolo ==
  \/ BootStart
  \/ BootRetry
  \/ BootDelayDone
  \/ BootResume
  \/ Logout
  \/ TaskRetry("a")
  \/ TaskDelayDone("a")
  \/ RegisterStart("a")
  \/ RegisterResume("a")
  \/ LoginStart("a")
  \/ LoginResume1("a")
  \/ LoginResume2("a")
  \/ UpdateProfileStart("a")
  \/ UpdateProfileResume("a")
  \/ UpdateAddressStart("a")
  \/ UpdateAddressResume("a")
  \/ VerifyOtpStart("a")
  \/ VerifyOtpResume1("a")
  \/ VerifyOtpResume2("a")
  \/ ResendOtpStart("a")
  \/ ResendOtpResume("a")

\* the event loop runs every continuation of loadUser that is ready: the
\* network settles each fetch() and the retry timer fires
FairSpec ==
  /\ Init /\ [][NextSolo]_vars
  /\ WF_vars(BootStart)
  /\ WF_vars(BootRetry \/ BootResume)
  /\ WF_vars(BootDelayDone)

-----------------------------------------------------------------------------
(* A stand-alone call fetchWithRetry(url, options, retries) *)

InitFetch ==
  /\ storage = Null
  /\ authState = InitialAuthState(Null)
  /\ boot = IdleBoot
  /\ tasks = [s \in Slots |-> IdleTask]
  /\ started = 0
  /\ \E n \in (-1)..MaxBudget : fr = FetchStart(n)
  /\ fetchLog = <<>>
  /\ route = IdleRoute
  /\ page = IdlePage
  /\ otp = IdleOtp

FrSettle ==
  /\ fr.phase = "fetch"
  /\ \E o \in FetchFailures \cup Outcomes("other") :
       /\ fr' = FetchSettle(fr, o)
       /\ fetchLog' = Append(fetchLog, o)
  /\ UNCHANGED <<storage, authState, boot, tasks, started, route, page, otp>>

FrDelayDone ==
  /\ fr.phase = "delay"
  /\ fr' = FetchDelayDone(fr)
  /\ UNCHANGED <<storage, authState, boot, tasks, started, fetchLog, route, page, otp>>

NextFetch == FrSettle \/ FrDelayDone

SpecFetch == InitFetch /\ [][NextFetch]_vars

\* every pending fetch() settles and every retry timer fires
FairSpecFetch == SpecFetch /\ WF_vars(NextFetch)

-----------------------------------------------------------------------------
(* A render of ProtectedRoute on any session state *)

uAdmin == [first |-> "r", role |-> "admin"]

InitGuard ==
  /\ storage = Null
  /\ authState \in [user : {NullObj, u1, u2, uAdmin, p1}, token : {Null, "t1"},
                    isAuthenticated : BOOLEAN, isLoading : BOOLEAN]
  /\ boot = BootDone("noToken")
  /\ tasks = [s \in Slots |-> IdleTask]
  /\ started = 0
  /\ fr = IdleFetch
  /\ fetchLog = <<>>
  /\ \E r \in {Undefined, "user", "ngo", "admin"} : route = [IdleRoute EXCEPT !.requiredRole = r]
  /\ page = IdlePage
  /\ otp = IdleOtp

Render ==
  /\ route.outcome = "none"
  /\ route' = [route EXCEPT !.outcome = ProtectedRoute(authState, route.requiredRole)]
  /\ UNCHANGED <<storage, authState, boot, tasks, started, fr, fetchLog, page, otp>>

NextGuard == Render

SpecGuard == InitGuard /\ [][NextGuard]_vars

-----------------------------------------------------------------------------
(* The pages Login, Register, VerifyOTP and NGOProfile: onSubmit *)

Pages == {"login", "register", "verify", "ngoProfile"}

\* the controller operation onSubmit awaits first
FirstOp(name) ==
  CASE name = "login" -> "login"
    [] name = "register" -> "register"
    [] name = "verify" -> "verifyOtp"
    [] name = "ngoProfile" -> "updateUserProfile"

\* the argument of navigate() at the end of the try block
Target(name) ==
  CASE name = "login" -> "/dashboard"
    [] name = "register" -> "/verify-otp"
    [] name = "verify" -> "/ngo-profile"
    [] name = "ngoProfile" -> "/dashboard"

\* onSubmit has run to its end; finally { setIsLoading(false) }
PageDone(p, nav) ==
  [p EXCEPT !.pc = "done", !.loading = FALSE, !.nav = nav, !.cap = ClearedAuthState]

PageSettleAlwaysNavigates(p, t) == PageDone(p, Target(p.name))

\* the last awaited operation t has settled: navigate(target) in the try
\* block when it resolved, the catch block when it rejected
PageSettle(p, t) ==
  IF t.outcome = "resolved" THEN PageDone(p, Target(p.name)) ELSE PageDone(p, p.nav)

\* the submit button is enabled: the page's isLoading is false and, on the
\* Login page, the provider's isLoading too
MaySubmit(name) ==
  /\ boot.pc # "start"
  /\ started < MaxOps
  /\ page.pc \in {"idle", "done"}
  /\ tasks["a"].pc \in {"idle", "done"}
  /\ (name = "login" => ~authState.isLoading)

\* onSubmit up to its first await: setIsLoading(true) and the call of the
\* controller operation
PageSubmit(name) ==
  /\ MaySubmit(name)
  /\ page' = [name |-> name, pc |-> "await1", loading |-> TRUE, nav |-> "none",
              cap |-> IF name = "ngoProfile" THEN authState ELSE ClearedAuthState]
  /\ tasks' = [tasks EXCEPT !["a"] = Invoked(FirstOp(name), authState)]
  /\ started' = started + 1
  /\ UNCHANGED <<storage, authState, boot, fr, fetchLog, route, otp>>

\* VerifyOTP.onSubmit without location.state.email: navigate('/register') and
\* return, before setIsLoading(true)
PageSubmitNoEmail ==
  /\ MaySubmit("verify")
  /\ page' = [name |-> "verify", pc |-> "done", loading |-> FALSE,
              nav |-> "/register", cap |-> ClearedAuthState]
  /\ started' = started + 1
  /\ UNCHANGED <<storage, authState, boot, tasks, fr, fetchLog, route, otp>>

\* NGOProfile.onSubmit after `await updateUserProfile(...)` resolved: it calls
\* the updateAddress of the render it was created in
PageContinue ==
  /\ page.name = "ngoProfile" /\ page.pc = "await1"
  /\ tasks["a"].pc = "done" /\ tasks["a"].outcome = "resolved"
  /\ page' = [page EXCEPT !.pc = "await2"]
  /\ tasks' = [tasks EXCEPT !["a"] = Invoked("updateAddress", page.cap)]
  /\ UNCHANGED <<storage, authState, boot, started, fr, fetchLog, route, otp>>

\* onSubmit after its last await settled, or after any await rejected
PageFinish ==
  /\ page.pc \in {"await1", "await2"}
  /\ tasks["a"].pc = "done"
  /\ ~(page.name = "ngoProfile" /\ page.pc = "await1" /\ tasks["a"].outcome = "resolved")
  /\ page' = PageSettle(page, tasks["a"])
  /\ UNCHANGED <<storage, authState, boot, tasks, started, fr, fetchLog, route, otp>>

NextPages ==
  \/ BootStart
  \/ BootRetry
  \/ BootDelayDone
  \/ BootResume
  \/ Logout
  \/ \E name \in Pages : PageSubmit(name)
  \/ PageSubmitNoEmail
  \/ PageContinue
  \/ PageFinish
  \/ TaskRetry("a")
  \/ TaskDelayDone("a")
  \/ RegisterResume("a")
  \/ LoginResume1("a")
  \/ LoginResume2("a")
  \/ UpdateProfileResume("a")
  \/ UpdateAddressResume("a")
  \/ VerifyOtpResume1("a")
  \/ VerifyOtpResume2("a")

SpecPages == Init /\ [][NextPages]_vars

-----------------------------------------------------------------------------
(* The VerifyOTP page: handleResendOTP and the countdown effect *)

\* after `await resendOtp(email)` resolved: setResendDisabled(true);
\* setCountdown(60)
ResendSucceeded(o) ==
  [o EXCEPT !.resendDisabled = TRUE, !.countdown = CooldownSeconds,
            !.sinceFirst = IF o.resendDisabled THEN o.sinceFirst ELSE 0,
            !.sinceLast = 0]

\* after `await resendOtp(email)` rejected: the catch block logs the error
ResendFailed(o) == o

CountdownTickLate(o) ==
  LET n == IF o.sinceFirst <= CooldownSeconds THEN o.sinceFirst + 1 ELSE o.sinceFirst
      m == IF o.sinceLast <= CooldownSeconds THEN o.sinceLast + 1 ELSE o.sinceLast
  IN IF o.countdown <= 0
     THEN [o EXCEPT !.countdown = 0, !.resendDisabled = FALSE,
                    !.sinceFirst = n, !.sinceLast = m]
     ELSE [o EXCEPT !.countdown = o.countdown - 1, !.sinceFirst = n, !.sinceLast = m]

\* one firing of the interval: setCountdown(prev => ...), which at prev <= 1
\* clears the interval, enables the button and yields 0
CountdownTick(o) ==
  LET n == IF o.sinceFirst <= CooldownSeconds THEN o.sinceFirst + 1 ELSE o.sinceFirst
      m == IF o.sinceLast <= CooldownSeconds THEN o.sinceLast + 1 ELSE o.sinceLast
  IN IF o.countdown <= 1
     THEN [o EXCEPT !.countdown = 0, !.resendDisabled = FALSE,
                    !.sinceFirst = n, !.sinceLast = m]
     ELSE [o EXCEPT !.countdown = o.countdown - 1, !.sinceFirst = n, !.sinceLast = m]

InitOtp ==
  /\ storage = Null
  /\ authState = InitialAuthState(Null)
  /\ boot = BootDone("noToken")
  /\ tasks = [s \in Slots |-> IdleTask]
  /\ started = 0
  /\ fr = IdleFetch
  /\ fetchLog = <<>>
  /\ route = IdleRoute
  /\ page = IdlePage
  /\ \E e \in BOOLEAN : otp = [IdleOtp EXCEPT !.email = e]

\* a click on the resend button, which only resendDisabled disables:
\* handleResendOTP returns at once without an email or during the cooldown,
\* else it calls resendOtp; slot s holds the request
HandleResendOTP(s) ==
  /\ otp.clicks < MaxClicks
  /\ tasks[s].pc = "idle"
  /\ (s = "b" => tasks["a"].pc # "idle")
  /\ otp' = [otp EXCEPT !.clicks = otp.clicks + 1]
  /\ IF ~otp.email \/ otp.resendDisabled
     THEN UNCHANGED <<tasks, started>>
     ELSE /\ tasks' = [tasks EXCEPT ![s] = Invoked("resendOtp", authState)]
          /\ started' = started + 1
  /\ UNCHANGED <<storage, authState, boot, fr, fetchLog, route, page>>

\* handleResendOTP after its await settled
ResendSettled(s) ==
  /\ tasks[s].op = "resendOtp" /\ tasks[s].pc = "done"
  /\ otp' = IF tasks[s].outcome = "resolved" THEN ResendSucceeded(otp) ELSE ResendFailed(otp)
  /\ tasks' = [tasks EXCEPT ![s] = IdleTask]
  /\ UNCHANGED <<storage, authState, boot, started, fr, fetchLog, route, page>>

\* the interval of the countdown effect, which runs while resendDisabled
Tick ==
  /\ otp.resendDisabled
  /\ otp' = CountdownTick(otp)
  /\ UNCHANGED <<storage, authState, boot, tasks, started, fr, fetchLog, route, page>>

NextOtp ==
  \/ \E s \in Slots : HandleResendOTP(s)
  \/ \E s \in Slots : ResendSettled(s)
  \/ Tick
  \/ \E s \in Slots : TaskRetry(s)
  \/ \E s \in Slots : TaskDelayDone(s)
  \/ \E s \in Slots : ResendOtpResume(s)

SpecOtp == InitOtp /\ [][NextOtp]_vars

-----------------------------------------------------------------------------
(* Properties of the session state *)

\* C1: in every reachable SessionState, isAuthenticated is true if and only
\* if both token and user are present
C1_AuthIffTokenAndUser ==
  authState.isAuthenticated <=>
    (authState.token # Null /\ authState.user # NullObj)

\* C2: when the login request succeeded and the identity fetch fails, then
\* after login rejects, starting unauthenticated, isAuthenticated is false and
\* storage does not hold the token of that login response
C2_LoginAtomicity ==
  [][\A s \in Slots :
       (/\ tasks[s].op = "login" /\ tasks[s].pc = "await2"
        /\ tasks'[s].pc = "done" /\ tasks'[s].outcome = "rejected"
        /\ ~authState.isAuthenticated)
       => (~authState'.isAuthenticated /\ storage' # tasks[s].tok)]_vars

\* C3: when the identity fetch of bootstrap does not succeed (non-2xx response
\* or retry exhaustion), bootstrap removes the stored token and ends in the
\* cleared state
C3_BootstrapFailureClears ==
  [][(boot.pc = "await" /\ boot'.pc = "done" /\ boot'.exit # "ok")
       => (storage' = Null /\ authState' = ClearedAuthState)]_vars

\* C4: under fair scheduling of loadUser's continuations bootstrap ends, on
\* every path, and isLoading is false when it has ended
C4_BootstrapLiveness == <>(boot.pc = "done" /\ ~authState.isLoading)

\* bootstrap has ended by retry exhaustion and isLoading is false
C4_Witness == boot.pc = "done" /\ boot.exit = "caught" /\ ~authState.isLoading

\* C5: the step that invokes or advances no operation and issues no request,
\* logout, leaves storage without a token and SessionState exactly
\* {user: null, token: null, isAuthenticated: false, isLoading: false}
C5_LogoutDeterminism ==
  [][(boot' = boot /\ tasks' = tasks /\ started' = started /\ fr' = fr)
       => (storage' = Null /\ authState' = ClearedAuthState)]_vars

\* bootstrap had authenticated the session and a logout has cleared it
C5_Witness ==
  boot.exit = "ok" /\ storage = Null /\ authState = ClearedAuthState

-----------------------------------------------------------------------------
(* Properties of fetchWithRetry *)

IsFailure(o) == o.kind = "throw" \/ o.status = 504

AllFail(log) == \A j \in 1..Len(log) : IsFailure(log[j])

\* C6: with a budget n >= 1, when every attempt fails, exactly n calls are
\* made and n-1 delays taken, and the call rejects with the error of the last
\* attempt, without a response
C6_RetryExhaustion ==
  (fr.retries >= 1 /\ AllFail(fetchLog) /\ Len(fetchLog) >= fr.retries)
    => /\ Len(fetchLog) = fr.retries
       /\ fr.phase = "threw"
       /\ fr.calls = fr.retries
       /\ fr.delays = fr.retries - 1
       /\ fr.error = CaughtError(fetchLog[Len(fetchLog)])
       /\ fr.response = NoOutcome

\* three attempts failed, the last by a 504 after a thrown error
C6_Witness ==
  /\ fr.retries = 3 /\ Len(fetchLog) = 3 /\ AllFail(fetchLog)
  /\ fetchLog[2].kind = "throw" /\ fetchLog[3].status = 504
  /\ fr.phase = "threw"

\* C7: with a budget n, while the first k < n attempts have all failed the
\* next attempt is made, and when attempt k+1 completes with a response other
\* than 504 that response is returned after exactly k+1 calls and k delays
C7_RetryThenSuccess ==
  /\ (fr.retries >= 1 /\ AllFail(fetchLog) /\ Len(fetchLog) < fr.retries)
       => /\ fr.phase \in {"fetch", "delay"}
          /\ fr.phase = "fetch" => (fr.calls = Len(fetchLog) + 1 /\ fr.delays = Len(fetchLog))
  /\ (/\ fr.retries >= 1 /\ Len(fetchLog) >= 1
      /\ ~IsFailure(fetchLog[Len(fetchLog)])
      /\ AllFail(SubSeq(fetchLog, 1, Len(fetchLog) - 1)))
       => /\ fr.phase = "returned"
          /\ fr.response = fetchLog[Len(fetchLog)]
          /\ fr.calls = Len(fetchLog)
          /\ fr.delays = Len(fetchLog) - 1
          /\ Len(fetchLog) <= fr.retries

\* 504, 504, success with a budget of 3
C7_Witness ==
  /\ fr.retries = 3 /\ Len(fetchLog) = 3
  /\ fetchLog[1].status = 504 /\ fetchLog[2].status = 504
  /\ fetchLog[3].status = 200
  /\ fr.phase = "returned" /\ fr.delays = 2

\* C8: when the first HTTP call completes with a status other than 504, its
\* response is returned after exactly one attempt and no delay
C8_BusinessErrorsNotRetried ==
  (/\ Len(fetchLog) >= 1
   /\ fetchLog[1].kind = "resp" /\ fetchLog[1].status # 504)
    => /\ Len(fetchLog) = 1
       /\ fr.phase = "returned"
       /\ fr.response = fetchLog[1]
       /\ fr.calls = 1
       /\ fr.delays = 0

\* a 401 and a 500 are handed back at once
C8_Witness ==
  /\ fr.phase = "returned" /\ fr.response.status \in {401, 500}
  /\ fr.calls = 1 /\ fr.retries = 3

-----------------------------------------------------------------------------
(* Properties of updateUserProfile and updateAddress *)

\* the user payloads a profile-update response carries, in either shape
ProfilePayloads == {Unwrap(o.body) : o \in {x \in Outcomes("profile") : Ok(x)}}

\* v retains the fields of u absent from p, holds p's fields, and no other
IsMergeOf(v, u, p) ==
  /\ DOMAIN v = (DOMAIN u) \cup (DOMAIN p)
  /\ \A k \in DOMAIN p : v[k] = p[k]
  /\ \A k \in (DOMAIN u) \ (DOMAIN p) : v[k] = u[k]

\* C9: a successful updateUserProfile leaves the UserRecord equal to the old
\* one merged with the user payload of the response, in either response
\* shape, and token, isAuthenticated and isLoading unchanged
C9_MergeInvariant ==
  [][\A s \in Slots :
       (/\ tasks[s].op = "updateUserProfile" /\ tasks[s].pc = "await1"
        /\ tasks'[s].outcome = "resolved"
        /\ authState.user # NullObj)
       => /\ \E p \in ProfilePayloads :
               IsMergeOf(authState'.user, authState.user, p)
          /\ authState'.token = authState.token
          /\ authState'.isAuthenticated = authState.isAuthenticated
          /\ authState'.isLoading = authState.isLoading]_vars

-----------------------------------------------------------------------------
(* Properties of the controller operations *)

\* the identities GET /api/user/me serves, whatever the shape of the body
Identities == {u1, u2}

AllFree == \A s \in Slots : Free(s)

\* C11: every step of login, register, verifyOtp, resendOtp,
\* updateUserProfile and updateAddress other than the one that resolves the
\* operation leaves SessionState as it is: an operation that rejects has not
\* changed user, token, isAuthenticated or isLoading
C11_FailurePolicy ==
  [][\A s \in Slots :
       (tasks'[s] # tasks[s] /\ tasks'[s].outcome # "resolved")
       => authState' = authState]_vars

\* login was rejected after its identity fetch and updateUserProfile by the
\* server, in a session that still holds its token
C11_Witness ==
  /\ tasks["a"].op = "login" /\ tasks["a"].err = "Failed to fetch user data"
  /\ tasks["b"].op = "updateUserProfile" /\ tasks["b"].err = "m"
  /\ authState.token # Null

\* C12: no step of register or resendOtp, whatever the outcome, changes
\* SessionState or the token in storage
C12_RegisterResendNoEffect ==
  [][\A s \in Slots :
       (tasks'[s] # tasks[s] /\ tasks'[s].op \in {"register", "resendOtp"})
       => (authState' = authState /\ storage' = storage)]_vars

\* register has succeeded and resendOtp failed, and nobody is authenticated
C12_Witness ==
  /\ tasks["a"].op = "register" /\ tasks["a"].outcome = "resolved"
  /\ tasks["b"].op = "resendOtp" /\ tasks["b"].outcome = "rejected"
  /\ ~authState.isAuthenticated /\ authState.user = NullObj

\* C13: verifyOtp that resolves right after the verification request has
\* changed neither SessionState nor storage and has issued no identity fetch;
\* when the response carries a token, the token is stored and the identity
\* fetch issued with it, and on its success SessionState is
\* {user: identity, token: that token, isAuthenticated: true, isLoading: false}
C13_VerifyOtp ==
  [][\A s \in Slots :
       tasks[s].op = "verifyOtp" =>
         /\ (tasks[s].pc = "await1" /\ tasks'[s].outcome = "resolved")
              => (authState' = authState /\ storage' = storage)
         /\ (tasks[s].pc = "await1" /\ tasks'[s].pc = "await2")
              => /\ tasks'[s].tok \in Tokens
                 /\ storage' = tasks'[s].tok
                 /\ tasks'[s].f = FetchStart(DefaultRetries)
                 /\ authState' = authState
         /\ (tasks[s].pc = "await2" /\ tasks'[s].outcome = "resolved")
              => \E u \in Identities :
                   authState' = [user |-> u, token |-> tasks[s].tok,
                                 isAuthenticated |-> TRUE, isLoading |-> FALSE]]_vars

\* verifyOtp alone has authenticated the session, from the nested body shape
C13_Witness ==
  /\ tasks["a"].op = "verifyOtp" /\ tasks["a"].outcome = "resolved"
  /\ started = 1 /\ boot.exit = "noToken"
  /\ authState.isAuthenticated /\ authState.user = u2
  /\ storage = authState.token

\* C14: bootstrap without a stored token issues no HTTP call, does not throw
\* and ends with isLoading false, isAuthenticated false, no user, no token and
\* storage still empty
C14_BootstrapNoToken ==
  [][(boot.pc = "start" /\ storage = Null /\ boot' # boot)
       => /\ boot'.pc = "done" /\ boot'.exit = "noToken"
          /\ boot'.f.calls = 0
          /\ authState' = [user |-> NullObj, token |-> Null,
                           isAuthenticated |-> FALSE, isLoading |-> FALSE]
          /\ storage' = Null]_vars

\* bootstrap has ended without a token, before any operation
C14_Witness ==
  /\ boot.pc = "done" /\ boot.exit = "noToken" /\ started = 0
  /\ ~authState.isLoading /\ storage = Null

\* C15: bootstrap whose identity fetch returns 2xx sets SessionState to
\* {user: the identity of the body, token: the token read at start,
\* isAuthenticated: true, isLoading: false} and does not touch storage
C15_BootstrapSuccess ==
  [][(boot.pc = "await" /\ boot'.exit = "ok")
       => /\ \E u \in Identities :
               authState' = [user |-> u, token |-> boot.token,
                             isAuthenticated |-> TRUE, isLoading |-> FALSE]
          /\ storage' = storage]_vars

\* bootstrap has authenticated the stored token, before any operation
C15_Witness ==
  /\ boot.exit = "ok" /\ started = 0
  /\ authState.isAuthenticated /\ authState.user = u2
  /\ storage = "t1" /\ authState.token = "t1"

\* C16: login stores the token t of the login response in the step that
\* issues the identity fetch, never resolves before that fetch, and when the
\* fetch returns identity u resolves with SessionState
\* {user: u, token: t, isAuthenticated: true, isLoading: false}, storage untouched
C16_LoginSuccess ==
  [][\A s \in Slots :
       tasks[s].op = "login" =>
         /\ tasks[s].pc = "await1" => tasks'[s].outcome # "resolved"
         /\ (tasks[s].pc = "await1" /\ tasks'[s].pc = "await2")
              => /\ tasks'[s].tok \in Tokens
                 /\ storage' = tasks'[s].tok
                 /\ tasks'[s].f = FetchStart(DefaultRetries)
         /\ (tasks[s].pc = "await2" /\ tasks'[s].outcome = "resolved")
              => /\ \E u \in Identities :
                      authState' = [user |-> u, token |-> tasks[s].tok,
                                    isAuthenticated |-> TRUE, isLoading |-> FALSE]
                 /\ storage' = storage]_vars

\* login alone has authenticated the session and storage holds its token
C16_Witness ==
  /\ tasks["a"].op = "login" /\ tasks["a"].outcome = "resolved"
  /\ started = 1 /\ boot.exit = "noToken"
  /\ authState.isAuthenticated /\ authState.user = u1
  /\ storage = "t2" /\ authState.token = "t2"

\* C17: ProtectedRoute renders the loading placeholder if isLoading, else
\* redirects to /login if not authenticated, else redirects to /dashboard if
\* requiredRole is given and differs from user.role, else renders the
\* children: exactly one of the four
C17_RouteGuard ==
  route.outcome # "none" =>
    LET req == route.requiredRole
        role == RoleOf(authState.user)
        loading == authState.isLoading
        auth == authState.isAuthenticated
    IN /\ route.outcome \in {"loading", "/login", "/dashboard", "children"}
       /\ route.outcome = "loading" <=> loading
       /\ route.outcome = "/login" <=> (~loading /\ ~auth)
       /\ route.outcome = "/dashboard" <=>
            (~loading /\ auth /\ req # Undefined /\ req # role)
       /\ route.outcome = "children" <=>
            (~loading /\ auth /\ (req = Undefined \/ req = role))

\* an authenticated ngo on a route for admins is sent to the dashboard
C17_Witness ==
  /\ route.outcome = "/dashboard" /\ route.requiredRole = "admin"
  /\ authState.isAuthenticated /\ authState.user = u1

\* C18: when the remote API rejects the token with a 401 on the identity
\* fetch of bootstrap, on a profile update or on an address update, the token
\* is cleared from storage and from SessionState
C18_CredentialRejection ==
  [][/\ (boot.pc = "await" /\ boot'.exit = "notOk")
          => (storage' = Null /\ authState'.token = Null)
     /\ \A s \in Slots :
          (/\ tasks[s].op \in {"updateUserProfile", "updateAddress"}
           /\ tasks[s].pc = "await1"
           /\ tasks'[s].err = ErrBodyMsg.message)
          => (storage' = Null /\ authState'.token = Null)]_vars

\* C19: whenever bootstrap has ended and no operation is in flight, the token
\* in storage equals SessionState.token
C19_WriteThrough ==
  (boot.pc = "done" /\ AllFree) => storage = authState.token

\* C20: whenever bootstrap has ended and no operation is in flight, isLoading
\* is false
C20_LoadingOnlyInFlight ==
  (boot.pc = "done" /\ AllFree) => ~authState.isLoading

\* bootstrap gave up after its retries, an operation has come and gone
C20_Witness ==
  /\ boot.pc = "done" /\ boot.exit = "caught" /\ AllFree
  /\ tasks["a"].pc = "done" /\ ~authState.isLoading

-----------------------------------------------------------------------------
(* Properties of overlapping operations *)

Other(s) == IF s = "a" THEN "b" ELSE "a"

\* C21: a successful updateAddress invoked with a token and a UserRecord
\* leaves the UserRecord with the new address and every other field as it
\* was, and token, isAuthenticated and isLoading unchanged
C21_UpdateAddressSuccess ==
  [][\A s \in Slots :
       (/\ tasks[s].op = "updateAddress" /\ tasks[s].pc = "await1"
        /\ tasks'[s].outcome = "resolved"
        /\ tasks[s].capUser # NullObj
        /\ authState.user # NullObj)
       => /\ DOMAIN authState'.user = (DOMAIN authState.user) \cup {"address"}
          /\ authState'.user.address = tasks[s].arg
          /\ \A k \in (DOMAIN authState.user) \ {"address"} :
               authState'.user[k] = authState.user[k]
          /\ authState'.token = authState.token
          /\ authState'.isAuthenticated = authState.isAuthenticated
          /\ authState'.isLoading = authState.isLoading]_vars

\* an authenticated user has got the address
C21_Witness ==
  /\ tasks["a"].op = "updateAddress" /\ tasks["a"].outcome = "resolved"
  /\ authState.isAuthenticated
  /\ "address" \in DOMAIN authState.user /\ "role" \in DOMAIN authState.user

\* C22: when a profile or address update has written the UserRecord while the
\* identity fetch of bootstrap or login was in flight, the completion of that
\* fetch replaces the UserRecord wholesale with the identity of the response
C22_LastWriterWins ==
  [][/\ (boot.pc = "await" /\ boot'.exit = "ok" /\ authState.user # NullObj)
          => authState' = [user |-> authState'.user, token |-> boot.token,
                           isAuthenticated |-> TRUE, isLoading |-> FALSE]
             /\ authState'.user \in Identities
     /\ \A s \in Slots :
          (/\ tasks[s].op = "login" /\ tasks[s].pc = "await2"
           /\ tasks'[s].outcome = "resolved" /\ authState.user # NullObj)
          => authState' = [user |-> authState'.user, token |-> tasks[s].tok,
                           isAuthenticated |-> TRUE, isLoading |-> FALSE]
             /\ authState'.user \in Identities]_vars

\* a profile update resolved during bootstrap and its fields are gone
C22_Witness ==
  /\ boot.exit = "ok" /\ started = 1
  /\ tasks["a"].op = "updateUserProfile" /\ tasks["a"].outcome = "resolved"
  /\ authState.user \in Identities

\* C24: in every reachable SessionState isAuthenticated implies that token and
\* user are present
C24_AuthImpliesTokenAndUser ==
  authState.isAuthenticated =>
    (authState.token # Null /\ authState.user # NullObj)

\* an authenticated session after two operations
C24_Witness ==
  /\ authState.isAuthenticated /\ started = 2 /\ AllFree
  /\ tasks["b"].op = "login" /\ tasks["b"].outcome = "resolved"

\* the session holds nothing: not authenticated, no token in SessionState, no
\* token in storage
LoggedOut ==
  ~authState.isAuthenticated /\ authState.token = Null /\ storage = Null

\* C25 as claimed: when logout was invoked while bootstrap, or the identity
\* fetch of login or verifyOtp, was in flight, then after that operation has
\* completed the session is still logged out
C25_LogoutNotUndone ==
  [][/\ (boot.pc = "await" /\ boot'.pc = "done" /\ LoggedOut) => LoggedOut'
     /\ \A s \in Slots :
          (/\ tasks[s].op \in {"login", "verifyOtp"} /\ tasks[s].pc = "await2"
           /\ tasks'[s].pc = "done"
           /\ boot.pc = "done" /\ boot.exit # "notOk"
           /\ LoggedOut)
          => LoggedOut']_vars

\* C25 as amended: a logged-out session stays logged out through every step
\* except the successful ones of bootstrap, login and verifyOtp, whenever
\* these were started: the 2xx identity response of bootstrap, the 2xx token
\* response of login or verifyOtp, and their 2xx identity response
C25_LogoutUndoneOnlyBySuccess ==
  [][(LoggedOut /\ ~LoggedOut')
       => \/ (boot.pc = "await" /\ boot'.exit = "ok")
          \/ \E s \in Slots :
               /\ tasks[s].op \in {"login", "verifyOtp"}
               /\ \/ (tasks[s].pc = "await1" /\ tasks'[s].pc = "await2")
                  \/ (tasks[s].pc = "await2" /\ tasks'[s].outcome = "resolved")]_vars

\* a logout during bootstrap has been undone by the identity response
C25_Witness ==
  /\ boot.exit = "ok" /\ started = 0
  /\ storage = Null /\ authState.isAuthenticated /\ authState.token = "t1"

\* C26: when two updates overlap, each successful completion keeps every
\* field of the UserRecord current at that time that it does not write, and
\* the record then holds what the completing update has written
C26_NoLostUpdate ==
  [][\A s \in Slots :
       (/\ tasks[s].op \in {"updateUserProfile", "updateAddress"}
        /\ tasks[s].pc = "await1"
        /\ tasks'[s].outcome = "resolved"
        /\ tasks[Other(s)].op \in {"updateUserProfile", "updateAddress"}
        /\ tasks[Other(s)].outcome # "rejected")
       => IF tasks[s].op = "updateAddress"
          THEN IsMergeOf(authState'.user, Spread(authState.user),
                         [address |-> tasks[s].arg])
          ELSE \E p \in ProfilePayloads :
                 IsMergeOf(authState'.user, Spread(authState.user), p)]_vars

\* C27: whenever ProtectedRoute renders its children, isLoading is false,
\* isAuthenticated true, token and user are present and, if requiredRole is
\* given, user.role equals it; right after logout it redirects to /login
C27_GuardedContentNeedsSession ==
  [][\A req \in {Undefined, "user", "ngo", "admin"} :
       /\ ProtectedRoute(authState', req) = "children"
            => /\ ~authState'.isLoading /\ authState'.isAuthenticated
               /\ authState'.token # Null /\ authState'.user # NullObj
               /\ req # Undefined => RoleOf(authState'.user) = req
       /\ (boot' = boot /\ tasks' = tasks /\ started' = started /\ fr' = fr)
            => ProtectedRoute(authState', req) = "/login"]_vars

\* the children of a route for the ngo role are rendered
C27_Witness ==
  /\ ProtectedRoute(authState, "ngo") = "children"
  /\ ProtectedRoute(authState, "user") = "/dashboard"
  /\ started >= 1

-----------------------------------------------------------------------------
(* The attempt bound of fetchWithRetry *)

\* C28: with a budget n >= 1 one invocation makes at least 1 and at most n
\* HTTP calls and ends by returning a response or by rejecting with an error;
\* with a budget n <= 0 it makes no call and resolves with neither
C28_AttemptBound ==
  /\ [](fr.retries >= 1
          => /\ 1 <= fr.calls /\ fr.calls <= fr.retries
             /\ Len(fetchLog) <= fr.calls
             /\ fr.phase = "returned"
                  => (fr.response # NoOutcome /\ fr.response.kind = "resp")
             /\ fr.phase = "threw"
                  => (fr.error # Null /\ fr.response = NoOutcome))
  /\ [](fr.retries <= 0
          => /\ fr.calls = 0 /\ fetchLog = <<>>
             /\ fr.phase = "returned"
             /\ fr.response = NoOutcome /\ fr.error = Null)
  /\ <>[](fr.phase \in {"returned", "threw"})

\* the whole budget was used and the last call brought a response
C28_Witness ==
  /\ fr.retries = MaxBudget /\ fr.calls = MaxBudget /\ Len(fetchLog) = MaxBudget
  /\ fr.phase = "returned" /\ fr.response.status = 200

-----------------------------------------------------------------------------
(* Properties of the pages *)

\* the operation whose resolution ends the try block of onSubmit
LastOp(name) == IF name = "ngoProfile" THEN "updateAddress" ELSE FirstOp(name)

\* C23: a page navigates to its target only when the operation it awaited has
\* resolved (Login: login, /dashboard; Register: register, /verify-otp;
\* VerifyOTP: verifyOtp, /ngo-profile; NGOProfile: updateUserProfile and then
\* updateAddress, /dashboard); NGOProfile calls updateAddress only after
\* updateUserProfile resolved; when an operation rejects the page does not
\* navigate and its isLoading returns to false
C23_PageFlows ==
  [][/\ (page'.nav # page.nav /\ page'.nav \in {Target(n) : n \in Pages})
          => page.pc \in {"await1", "await2"}
     /\ (page.pc \in {"await1", "await2"} /\ page'.nav # page.nav)
          => /\ page'.nav = Target(page.name)
             /\ tasks["a"].op = LastOp(page.name)
             /\ tasks["a"].pc = "done" /\ tasks["a"].outcome = "resolved"
             /\ page.name = "ngoProfile" => page.pc = "await2"
             /\ ~page'.loading
     /\ (tasks'["a"].op = "updateAddress" /\ tasks'["a"] # tasks["a"]
         /\ tasks["a"].op # "updateAddress")
          => /\ tasks["a"].op = "updateUserProfile"
             /\ tasks["a"].pc = "done" /\ tasks["a"].outcome = "resolved"
             /\ page.name = "ngoProfile" /\ page.pc = "await1"
     /\ (/\ page.pc \in {"await1", "await2"}
         /\ tasks["a"].pc = "done" /\ tasks["a"].outcome = "rejected"
         /\ page' # page)
          => /\ page'.pc = "done"
             /\ page'.nav = "none"
             /\ ~page'.loading]_vars

\* NGOProfile has saved the profile, then the address, and gone to /dashboard
C23_Witness ==
  /\ page.name = "ngoProfile" /\ page.pc = "done" /\ page.nav = "/dashboard"
  /\ ~page.loading
  /\ tasks["a"].op = "updateAddress" /\ tasks["a"].outcome = "resolved"

\* what C29 states of every step of the VerifyOTP page: a resolved resendOtp
\* disables resend and sets the countdown to 60, a rejected one changes
\* neither, a click during the cooldown issues no request, and a tick
\* takes 1 off the countdown, which stays at 0 or above
CooldownSteps ==
  /\ \A s \in Slots :
       (tasks[s].op = "resendOtp" /\ tasks[s].pc = "done" /\ tasks'[s].pc = "idle")
         => IF tasks[s].outcome = "resolved"
            THEN otp'.resendDisabled /\ otp'.countdown = CooldownSeconds
            ELSE /\ otp'.resendDisabled = otp.resendDisabled
                 /\ otp'.countdown = otp.countdown
  /\ (otp'.clicks # otp.clicks /\ otp.resendDisabled)
       => (tasks' = tasks /\ started' = started)
  /\ (otp' # otp /\ otp'.clicks = otp.clicks /\ tasks' = tasks)
       => (otp'.countdown = otp.countdown - 1 /\ otp'.countdown >= 0)

\* C29 as claimed: after a successful resendOtp resend is disabled and the
\* countdown 60; during the cooldown handleResendOTP issues no request; each
\* tick takes 1 off the countdown, never below 0; 60 ticks after a successful
\* resendOtp resend is enabled again; a failed resendOtp starts no cooldown
C29_ResendCooldown ==
  [][/\ CooldownSteps
     /\ otp'.countdown \in 0..CooldownSeconds
     /\ otp'.sinceFirst >= CooldownSeconds => ~otp'.resendDisabled]_vars

\* C29 as amended: the same, with resend enabled again 60 ticks after the
\* latest successful resendOtp
C29_ResendCooldownFromLatest ==
  [][/\ CooldownSteps
     /\ otp'.countdown \in 0..CooldownSeconds
     /\ otp'.resendDisabled => otp'.countdown = CooldownSeconds - otp'.sinceLast
     /\ otp'.sinceLast >= CooldownSeconds => ~otp'.resendDisabled]_vars

\* a second request resolved during the cooldown and resend came back 60
\* ticks after it
C29_Witness ==
  /\ otp.sinceLast = CooldownSeconds /\ otp.sinceFirst > CooldownSeconds
  /\ ~otp.resendDisabled /\ otp.countdown = 0

====
